---- MODULE Spec2Model ----
(***************************************************************************)
(* Model of the Rust Hook Analyzer extension: the hook signature parser    *)
(* (src/src/parser.ts), the matcher builder and the document analysis      *)
(* pass (src/src/extension.ts).                                            *)
(*                                                                         *)
(* A JavaScript string is modelled as a sequence of one-character strings, *)
(* so that every regular expression, trim and split of the source is       *)
(* computed character by character.                                        *)
(***************************************************************************)
EXTENDS Integers, Sequences, FiniteSets, TLC

VARIABLES
    \* --- parser (SpecParse) ---
    hookSignature,   \* the argument of parseHook
    parsed,          \* the value parseHook returned, Absent before the call
    \* --- normalizeGenericType (SpecNormalize) ---
    param,           \* the argument of normalizeGenericType
    charIndex,       \* the loop variable i: the characters read so far
    depth,           \* the nesting depth the loop tracks
    normalized,      \* the text the loop has built
    normalizedType,  \* the value normalizeGenericType returned, Absent before
    \* --- matcher (SpecMatch) ---
    hook,            \* the argument of createRegexFromHook
    text,            \* the text the pattern is run over
    checkMissingParams, \* the mode argument of createRegexFromHook
    regex,           \* the RegExp object (source, lastIndex), Absent before creation
    scan,            \* position of the exec loop: "idle", "loop" or "done"
    found,           \* the matches regex.exec has returned so far
    \* --- extension (Spec, SpecAnalyze) ---
    docText,         \* text of each document, Absent while it is not open
    workspaceFolder, \* whether a workspace folder exists (getVscodePath)
    files,           \* the four catalog files on disk
    diagnosticCollection, \* the diagnostics published per document uri
    activeEditor,    \* the document of the active editor, Absent for none
    decorations,     \* the valid-hook ranges set on the editor of each document
    lastPass         \* history: the catalogs the latest pass on a document loaded

normalizeVars == <<param, charIndex, depth, normalized, normalizedType>>
parseVars == <<hookSignature, parsed, normalizeVars>>
matchVars == <<hook, text, checkMissingParams, regex, scan, found>>
extVars == <<docText, workspaceFolder, files, diagnosticCollection, activeEditor,
             decorations, lastPass>>
vars == <<parseVars, matchVars, extVars>>

(***************************************************************************)
(* Characters and character classes of the regular expressions             *)
(***************************************************************************)
\* \w
WordChars ==
    {"a","b","c","d","e","f","g","h","i","j","k","l","m","n","o","p","q","r",
     "s","t","u","v","w","x","y","z",
     "A","B","C","D","E","F","G","H","I","J","K","L","M","N","O","P","Q","R",
     "S","T","U","V","W","X","Y","Z",
     "0","1","2","3","4","5","6","7","8","9","_"}

\* \s (the members that occur in the inputs)
SpaceChars == {" ", "\t", "\n"}

\* the characters '.' does not match
LineTerminators == {"\n"}

\* Words used to write inputs
sVoid == <<"v","o","i","d">>
sSP == <<" ">>
sTAB == <<"\t">>
sNL == <<"\n">>
sLP == <<"(">>
sRP == <<")">>
sLT == <<"<">>
sGT == <<">">>
sCOMMA == <<",">>
sDOT == <<".">>
sFoo == <<"F","o","o">>
sBar == <<"B","a","r">>
sBaz == <<"B","a","z">>
sF == <<"F">>
sNS == <<"N","S">>
sSub == <<"S","u","b">>
sInt == <<"i","n","t">>
sBool == <<"b","o","o","l">>
sString == <<"s","t","r","i","n","g">>
sList == <<"L","i","s","t">>
sDictionary == <<"D","i","c","t","i","o","n","a","r","y">>
sa == <<"a">>
sb == <<"b">>
sm == <<"m">>
sx == <<"x">>
sy == <<"y">>

(***************************************************************************)
(* String primitives of the JavaScript runtime                             *)
(***************************************************************************)
\* s.slice(from) with a 1-based index
DropFirst(s, n) == SubSeq(s, n + 1, Len(s))

\* number of leading characters of s that lie in the class cls
RECURSIVE SpanLen(_, _)
SpanLen(s, cls) ==
    IF s # <<>> /\ Head(s) \in cls THEN 1 + SpanLen(Tail(s), cls) ELSE 0

\* number of trailing characters of s that lie in the class cls
RECURSIVE SpanLenEnd(_, _)
SpanLenEnd(s, cls) ==
    IF s # <<>> /\ s[Len(s)] \in cls
    THEN 1 + SpanLenEnd(SubSeq(s, 1, Len(s) - 1), cls) ELSE 0

\* String.prototype.trim
Trim(s) ==
    LET a == SpanLen(s, SpaceChars)
        r == DropFirst(s, a)
    IN SubSeq(r, 1, Len(r) - SpanLenEnd(r, SpaceChars))

\* s.startsWith(p)
StartsWith(s, p) == Len(s) >= Len(p) /\ SubSeq(s, 1, Len(p)) = p

\* s.includes(c) for a one-character c
Includes(s, c) == \E i \in 1..Len(s) : s[i] = c

\* s.split(c) for a one-character separator c: always at least one piece
RECURSIVE SplitAcc(_, _, _)
SplitAcc(s, c, cur) ==
    IF s = <<>> THEN <<cur>>
    ELSE IF Head(s) = c THEN <<cur>> \o SplitAcc(Tail(s), c, <<>>)
    ELSE SplitAcc(Tail(s), c, Append(cur, Head(s)))

Split(s, c) == SplitAcc(s, c, <<>>)

\* parts.join(c)
RECURSIVE Join(_, _)
Join(parts, c) ==
    IF parts = <<>> THEN <<>>
    ELSE IF Len(parts) = 1 THEN parts[1]
    ELSE parts[1] \o <<c>> \o Join(Tail(parts), c)

\* Array.prototype.map / filter for the two callbacks of parseHook
RECURSIVE MapTrim(_)
MapTrim(parts) ==
    IF parts = <<>> THEN <<>> ELSE <<Trim(Head(parts))>> \o MapTrim(Tail(parts))

RECURSIVE FilterNonEmpty(_)
FilterNonEmpty(parts) ==
    IF parts = <<>> THEN <<>>
    ELSE IF Len(Head(parts)) > 0 THEN <<Head(parts)>> \o FilterNonEmpty(Tail(parts))
    ELSE FilterNonEmpty(Tail(parts))

\* s.replace(/\|/g, ',')
ReplaceBars(s) == [i \in 1..Len(s) |-> IF s[i] = "|" THEN "," ELSE s[i]]

(***************************************************************************)
(* parser.ts                                                               *)
(***************************************************************************)
\* an optional value: Absent is undefined, Some(v) a present value
Absent == <<>>
Some(v) == <<v>>

\* hookSignature.trim().replace(/^void\s+/, '')
StripVoid(s) ==
    IF StartsWith(s, sVoid) /\ SpanLen(DropFirst(s, 4), SpaceChars) >= 1
    THEN DropFirst(s, 4 + SpanLen(DropFirst(s, 4), SpaceChars))
    ELSE s

cleanSignature(sig) == StripVoid(Trim(sig))

\* cleanSignature.match(/^([\w.]+)\s*\((.*)\)$/): Absent for null, otherwise
\* Some of the two groups. Each quantifier is followed by a character outside
\* its class, so the greedy match is the only one.
methodMatch(clean) ==
    LET n == SpanLen(clean, WordChars \cup {"."})
        k == n + SpanLen(DropFirst(clean, n), SpaceChars)
    IN IF /\ n >= 1
          /\ Len(clean) >= k + 2
          /\ clean[k + 1] = "("
          /\ clean[Len(clean)] = ")"
          /\ \A i \in (k + 2)..(Len(clean) - 1) : clean[i] \notin LineTerminators
       THEN Some([fullName |-> SubSeq(clean, 1, n),
                  paramString |-> SubSeq(clean, k + 2, Len(clean) - 1)])
       ELSE Absent

\* the scan of normalizeGenericType: the state after the characters of p have
\* been read, starting from the depth d and the text n
RECURSIVE normalizeScan(_, _, _)
normalizeScan(p, d, n) ==
    IF p = <<>> THEN [depth |-> d, normalized |-> n]
    ELSE LET char == Head(p) IN
         IF char = "<" THEN normalizeScan(Tail(p), d + 1, Append(n, char))
         ELSE IF char = ">" THEN normalizeScan(Tail(p), d - 1, Append(n, char))
         ELSE IF char = "," /\ d > 0 THEN normalizeScan(Tail(p), d, Append(n, "|"))
         ELSE normalizeScan(Tail(p), d, Append(n, char))

normalizeGenericType(p) == ReplaceBars(normalizeScan(p, 0, <<>>).normalized)

RECURSIVE MapNormalize(_)
MapNormalize(params) ==
    IF params = <<>> THEN <<>>
    ELSE <<IF Includes(Head(params), "<") THEN normalizeGenericType(Head(params))
           ELSE Head(params)>> \o MapNormalize(Tail(params))

\* paramString.split(',').map(trim).filter(nonempty).map(normalize)
parseParameters(paramString) ==
    MapNormalize(FilterNonEmpty(MapTrim(Split(paramString, ","))))

\* mutants of hookName and hookNamespace: the first segment as the name; a
\* namespace for a single segment too
hookNameFirst(nameParts) == nameParts[1]

hookNamespaceAlways(nameParts) ==
    Some(Join(SubSeq(nameParts, 1, Len(nameParts) - 1), "."))

\* lines 20-22: the name and the namespace from the dotted identifier
hookName(nameParts) == nameParts[Len(nameParts)]

hookNamespace(nameParts) ==
    IF Len(nameParts) > 1
    THEN Some(Join(SubSeq(nameParts, 1, Len(nameParts) - 1), "."))
    ELSE Absent

\* what evaluating a function that throws yields
TypeError == [threw |-> "TypeError"]

\* lines 17-41: destructuring the match (a TypeError when it is null) and
\* building the record
parseMatched(m) ==
    IF m = Absent THEN TypeError
    ELSE LET nameParts == Split(m[1].fullName, ".")
         IN [name |-> hookName(nameParts),
             parameters |-> parseParameters(m[1].paramString),
             namespace |-> hookNamespace(nameParts)]

\* mutant of parseHook: the null check of the match is missing
parseHookUnguarded(sig) == parseMatched(methodMatch(cleanSignature(sig)))

parseHook(sig) ==
    LET clean == cleanSignature(sig)
        m == methodMatch(clean)
    IN IF m = Absent
       THEN [name |-> clean, parameters |-> <<>>, namespace |-> Absent]
       ELSE parseMatched(m)

(***************************************************************************)
(* The RegExp engine, for the pattern sources createRegexFromHook builds   *)
(***************************************************************************)
BACKSLASH == "\\"

\* the characters /[.*+?^${}()|[\]\\]/ matches
RegExpMeta == {".", "*", "+", "?", "^", "$", "{", "}", "(", ")", "|", "[", "]", BACKSLASH}

\* s.replace(/[.*+?^${}()|[\]\\]/g, '\\$&')
RECURSIVE EscapeRegExp(_)
EscapeRegExp(s) ==
    IF s = <<>> THEN <<>>
    ELSE (IF Head(s) \in RegExpMeta THEN <<BACKSLASH, Head(s)>> ELSE <<Head(s)>>)
         \o EscapeRegExp(Tail(s))

\* A compiled pattern is a sequence of elements. An element is a group
\* parenthesis, or a set of characters (negated or not) to be matched once
\* (many = FALSE) or min-or-more times, greedily (many = TRUE).
Elem(kind, set, neg, min, many) ==
    [kind |-> kind, set |-> set, neg |-> neg, min |-> min, many |-> many]

Lit(c) == Elem("char", {c}, FALSE, 1, FALSE)

\* position of the first "]" of src, 0 when there is none
RECURSIVE IndexOfBracket(_, _)
IndexOfBracket(src, i) ==
    IF i > Len(src) THEN 0
    ELSE IF src[i] = "]" THEN i
    ELSE IndexOfBracket(src, i + 1)

\* the atom at the head of a pattern source, and the number of characters of
\* the source it takes. The escape above leaves no metacharacter of a name or
\* a type unescaped, so the unescaped ones are those of the fixed fragments:
\* the group parentheses, the class [^)] and the quantifiers.
AtomAt(src) ==
    IF Head(src) = BACKSLASH /\ Len(src) >= 2
    THEN [len |-> 2,
          elem |-> IF src[2] = "s" THEN Elem("char", SpaceChars, FALSE, 1, FALSE)
                   ELSE IF src[2] = "w" THEN Elem("char", WordChars, FALSE, 1, FALSE)
                   ELSE Lit(src[2])]
    ELSE IF Head(src) = "[" /\ Len(src) >= 3 /\ src[2] = "^" /\ IndexOfBracket(src, 3) > 0
    THEN [len |-> IndexOfBracket(src, 3),
          elem |-> Elem("char", {src[i] : i \in 3..(IndexOfBracket(src, 3) - 1)},
                        TRUE, 1, FALSE)]
    ELSE IF Head(src) = "(" THEN [len |-> 1, elem |-> Elem("open", {}, FALSE, 1, FALSE)]
    ELSE IF Head(src) = ")" THEN [len |-> 1, elem |-> Elem("close", {}, FALSE, 1, FALSE)]
    ELSE IF Head(src) = "." THEN [len |-> 1, elem |-> Elem("char", LineTerminators, TRUE, 1, FALSE)]
    ELSE [len |-> 1, elem |-> Lit(Head(src))]

\* new RegExp(src, 'g'): the compiled elements of a pattern source
RECURSIVE Compile(_)
Compile(src) ==
    IF src = <<>> THEN <<>>
    ELSE LET a == AtomAt(src)
             rest == DropFirst(src, a.len)
         IN IF rest # <<>> /\ Head(rest) = "+"
            THEN <<[a.elem EXCEPT !.min = 1, !.many = TRUE]>> \o Compile(Tail(rest))
            ELSE IF rest # <<>> /\ Head(rest) = "*"
            THEN <<[a.elem EXCEPT !.min = 0, !.many = TRUE]>> \o Compile(Tail(rest))
            ELSE <<a.elem>> \o Compile(rest)

Accepts(e, c) == IF e.neg THEN c \notin e.set ELSE c \in e.set

\* number of consecutive characters of s from position i that e accepts
RECURSIVE RunLen(_, _, _)
RunLen(e, s, i) ==
    IF i <= Len(s) /\ Accepts(e, s[i]) THEN 1 + RunLen(e, s, i + 1) ELSE 0

\* The backtracking match of the elements pat against s from position i
\* (1-based): Absent, or Some of the position after the match and the bounds
\* of the capture group. A repetition tries its longest run first.
RECURSIVE MatchHere(_, _, _), MatchRep(_, _, _, _)
MatchHere(pat, s, i) ==
    IF pat = <<>> THEN Some([end |-> i, groupStart |-> 0, groupEnd |-> 0])
    ELSE LET e == Head(pat) IN
         IF e.kind = "open"
         THEN LET r == MatchHere(Tail(pat), s, i)
              IN IF r = Absent THEN Absent ELSE Some([r[1] EXCEPT !.groupStart = i])
         ELSE IF e.kind = "close"
         THEN LET r == MatchHere(Tail(pat), s, i)
              IN IF r = Absent THEN Absent ELSE Some([r[1] EXCEPT !.groupEnd = i])
         ELSE IF e.many THEN MatchRep(pat, s, i, RunLen(e, s, i))
         ELSE IF i <= Len(s) /\ Accepts(e, s[i]) THEN MatchHere(Tail(pat), s, i + 1)
         ELSE Absent

MatchRep(pat, s, i, k) ==
    IF k < Head(pat).min THEN Absent
    ELSE LET r == MatchHere(Tail(pat), s, i + k)
         IN IF r # Absent THEN r ELSE MatchRep(pat, s, i, k - 1)

\* the leftmost start at or after position i where pat matches
RECURSIVE SearchFrom(_, _, _)
SearchFrom(pat, s, i) ==
    IF i > Len(s) + 1 THEN Absent
    ELSE LET r == MatchHere(pat, s, i)
         IN IF r # Absent THEN Some([start |-> i, m |-> r[1]])
            ELSE SearchFrom(pat, s, i + 1)

\* regex.exec(str) of a global RegExp: the match (index, match[0], match[1])
\* and the lastIndex it leaves; a failed search returns null and resets
\* lastIndex to 0.
execResult(r, str) ==
    IF r = Absent
    THEN [match |-> Absent, lastIndex |-> 0]
    ELSE [match |-> Some([index |-> r[1].start - 1,
                          all |-> SubSeq(str, r[1].start, r[1].m.end - 1),
                          group1 |-> IF r[1].m.groupStart = 0 THEN Absent
                                     ELSE Some(SubSeq(str, r[1].m.groupStart,
                                                      r[1].m.groupEnd - 1))]),
          lastIndex |-> r[1].m.end - 1]

RegExpExec(re, str) ==
    execResult(SearchFrom(Compile(re.source), str, re.lastIndex + 1), str)

(***************************************************************************)
(* extension.ts: createRegexFromHook                                       *)
(***************************************************************************)
\* param.split(' ')[0]
paramType(p) == Split(p, " ")[1]

\* lines 72-77: the parameter types, escaped, each followed by \s+\w+, joined
\* by \s*,\s*
RECURSIVE paramPattern(_)
paramPattern(parameters) ==
    IF parameters = <<>> THEN <<>>
    ELSE EscapeRegExp(paramType(Head(parameters)))
         \o <<BACKSLASH, "s", "+", BACKSLASH, "w", "+">>
         \o (IF Len(parameters) > 1
             THEN <<BACKSLASH, "s", "*", ",", BACKSLASH, "s", "*">>
             ELSE <<>>)
         \o paramPattern(Tail(parameters))

\* 'void\\s+' + escapedName + '\\s*\\('
methodStart(parsedHook) ==
    sVoid \o <<BACKSLASH, "s", "+">> \o EscapeRegExp(parsedHook.name)
          \o <<BACKSLASH, "s", "*", BACKSLASH, "(">>

\* mutant of strictSource: the parameter types are not required
strictSourceAnyParams(parsedHook) ==
    methodStart(parsedHook) \o <<"[", "^", ")", "]", "*", BACKSLASH, ")">>

\* the source of the strict pattern (lines 71-81)
strictSource(parsedHook) ==
    IF Len(parsedHook.parameters) > 0
    THEN methodStart(parsedHook) \o <<BACKSLASH, "s", "*">>
         \o paramPattern(parsedHook.parameters)
         \o <<BACKSLASH, "s", "*", BACKSLASH, ")">>
    ELSE methodStart(parsedHook) \o <<BACKSLASH, "s", "*", BACKSLASH, ")">>

\* mutant of permissiveSource: the capture stops at the first non-word character
permissiveSourceWordsOnly(parsedHook) ==
    methodStart(parsedHook) \o <<"(", BACKSLASH, "w", "*", ")", BACKSLASH, ")">>

\* the source of the permissive pattern (line 68)
permissiveSource(parsedHook) ==
    methodStart(parsedHook) \o <<"(", "[", "^", ")", "]", "*", ")", BACKSLASH, ")">>

createRegexFromHook(h, permissive) ==
    LET parsedHook == parseHook(h)
    IN [source |-> IF permissive THEN permissiveSource(parsedHook)
                   ELSE strictSource(parsedHook),
        lastIndex |-> 0]

(***************************************************************************)
(* extension.ts: the catalog loaders                                       *)
(***************************************************************************)
\* A file on disk: missing, or holding text that is not JSON, or holding JSON.
\* The JSON of a workspace file is an object that has the catalog under its
\* key ("hooks", "deprecated") or lacks the key; the JSON of a default file of
\* the extension is the catalog itself.
File(exists, isJson, hasKey, catalog) ==
    [exists |-> exists, isJson |-> isJson, hasKey |-> hasKey, catalog |-> catalog]

MissingFile == File(FALSE, FALSE, FALSE, <<>>)
InvalidFile == File(TRUE, FALSE, FALSE, <<>>)

\* the outcome of a block of code: a value, or an exception thrown
Returned(v) == [threw |-> FALSE, value |-> v]
Thrown == [threw |-> TRUE, value |-> <<>>]

\* fs.readFileSync followed by JSON.parse
readJson(f) == IF f.exists /\ f.isJson THEN Returned(f) ELSE Thrown

\* the body of the try block of a loader (lines 20-33, 42-55): wsFile is the
\* file under .vscode, defaultFile the one of the extension
loaderTry(folder, wsFile, defaultFile) ==
    IF folder /\ wsFile.exists
    THEN LET r == readJson(wsFile)
         IN IF r.threw THEN Thrown
            ELSE Returned(IF r.value.hasKey THEN r.value.catalog ELSE <<>>)
    ELSE LET r == readJson(defaultFile)
         IN IF r.threw THEN Thrown ELSE Returned(r.value.catalog)

\* mutant of loaderCatch: the exception propagates
loaderNoCatch(r) == r

\* the catch block of a loader: log and return the empty catalog
loaderCatch(r) == IF r.threw THEN Returned(<<>>) ELSE r

loadDeprecatedHooks(folder, fs) ==
    loaderCatch(loaderTry(folder, fs.wsDeprecated, fs.extDeprecated))

loadValidHooks(folder, fs) ==
    loaderCatch(loaderTry(folder, fs.wsHooks, fs.extHooks))

(***************************************************************************)
(* extension.ts: analyzeDocument                                           *)
(***************************************************************************)
Diagnostic(range, message, severity) ==
    [range |-> range, message |-> message, severity |-> severity,
     source |-> "Rust Hook Analyzer"]

\* the range of a match, as the offsets positionAt is given
matchRange(m) == [start |-> m.index, end |-> m.index + Len(m.all)]

\* the message of a deprecated hook (line 108)
deprecatedMessage(oldHook, newHook) ==
    IF newHook # <<>>
    THEN [template |-> "Hook \"$1\" is deprecated.\nUse \"$2\" instead.",
          args |-> <<oldHook, newHook>>]
    ELSE [template |-> "Hook \"$1\" is deprecated.\nNo direct replacement available.",
          args |-> <<oldHook>>]

\* the message of a valid hook with missing parameters (line 134)
missingMessage(parsedHook, h) ==
    [template |-> "Hook \"$1\" has missing parameters.\nExpected: $2",
     args |-> <<parsedHook.name, h>>]

\* the while loop over regex.exec: every match, in the order found
RECURSIVE execAll(_, _), execLoop(_, _, _)
execAll(re, str) == execLoop(re, str, RegExpExec(re, str))

\* the loop, r being the value of the exec call of its condition
execLoop(re, str, r) ==
    IF r.match = Absent THEN <<>>
    ELSE <<r.match[1]>> \o execAll([re EXCEPT !.lastIndex = r.lastIndex], str)

\* mutant of deprecatedRegex: the permissive pattern
deprecatedRegexPermissive(oldHook) == createRegexFromHook(oldHook, TRUE)

\* the pattern the deprecated-hooks loop scans with (line 98)
deprecatedRegex(oldHook) == createRegexFromHook(oldHook, FALSE)

RECURSIVE deprecatedDiagnosticsOf(_, _, _)
deprecatedDiagnosticsOf(matches, oldHook, newHook) ==
    IF matches = <<>> THEN <<>>
    ELSE <<Diagnostic(matchRange(Head(matches)),
                      deprecatedMessage(oldHook, newHook), "Error")>>
         \o deprecatedDiagnosticsOf(Tail(matches), oldHook, newHook)

\* lines 97-115: the diagnostics of the deprecated hooks, entry by entry
RECURSIVE processDeprecated(_, _)
processDeprecated(str, deprecatedHooks) ==
    IF deprecatedHooks = <<>> THEN <<>>
    ELSE deprecatedDiagnosticsOf(execAll(deprecatedRegex(Head(deprecatedHooks).old), str),
                                 Head(deprecatedHooks).old, Head(deprecatedHooks).new)
         \o processDeprecated(str, Tail(deprecatedHooks))

\* lines 128-129: the parameter count of an occurrence
actualParamCount(m) ==
    LET params == Trim(m.group1[1])
    IN IF params # <<>> THEN Len(Split(params, ",")) ELSE 0

\* line 131
hasMissingParams(paramCount, parsedHook) == paramCount < Len(parsedHook.parameters)

\* lines 123-142 for the matches of one hook, parsedHook being parseHook(h)
RECURSIVE missingDiagnosticsOf(_, _, _)
missingDiagnosticsOf(matches, h, parsedHook) ==
    IF matches = <<>> THEN <<>>
    ELSE (IF hasMissingParams(actualParamCount(Head(matches)), parsedHook)
          THEN <<Diagnostic(matchRange(Head(matches)),
                            missingMessage(parsedHook, h), "Warning")>>
          ELSE <<>>)
         \o missingDiagnosticsOf(Tail(matches), h, parsedHook)

RECURSIVE matchRanges(_)
matchRanges(matches) ==
    IF matches = <<>> THEN <<>>
    ELSE <<matchRange(Head(matches))>> \o matchRanges(Tail(matches))

\* lines 118-143: the warnings and the highlighted ranges of the valid hooks
validHookResult(matches, h, rest) ==
    [diagnostics |-> missingDiagnosticsOf(matches, h, parseHook(h)) \o rest.diagnostics,
     ranges |-> matchRanges(matches) \o rest.ranges]

RECURSIVE processValid(_, _)
processValid(str, validHooks) ==
    IF validHooks = <<>> THEN [diagnostics |-> <<>>, ranges |-> <<>>]
    ELSE validHookResult(execAll(createRegexFromHook(Head(validHooks), TRUE), str),
                         Head(validHooks),
                         processValid(str, Tail(validHooks)))

analysisResult(deprecatedDiagnostics, valid) ==
    [diagnostics |-> deprecatedDiagnostics \o valid.diagnostics,
     validHookRanges |-> valid.ranges]

\* lines 90-143: what a pass computes from the text and the two catalogs
analysis(str, deprecatedHooks, validHooks) ==
    analysisResult(processDeprecated(str, deprecatedHooks),
                   processValid(str, validHooks))

\* mutant of publish: the new diagnostics are added to the earlier ones
publishAppending(earlier, diagnostics) ==
    IF earlier = Absent THEN Some(diagnostics) ELSE Some(earlier[1] \o diagnostics)

\* diagnosticCollection.set(uri, diagnostics) (line 151): the entry of the uri
publish(earlier, diagnostics) == Some(diagnostics)

Docs == {"a.cs", "notes.txt"}

languageId(d) == IF d = "notes.txt" THEN "plaintext" ELSE "csharp"

\* lines 145-151: the decorations and the diagnostics of a finished pass, a
\* being what it computed
finishPass(d, a, deprecatedHooks, validHooks) ==
    /\ decorations' =
         IF activeEditor = Some(d)
         THEN [decorations EXCEPT ![d] = a.validHookRanges]
         ELSE decorations
    /\ diagnosticCollection' =
         [diagnosticCollection EXCEPT
            ![d] = publish(diagnosticCollection[d], a.diagnostics)]
    /\ lastPass' =
         [lastPass EXCEPT
            ![d] = Some([deprecatedHooks |-> deprecatedHooks,
                         validHooks |-> validHooks])]

\* lines 90-151, the loaders having returned or thrown
analyzeLoaded(d, str, deprecatedHooks, validHooks) ==
    IF deprecatedHooks.threw \/ validHooks.threw
    THEN \* an exception leaves the handler before line 151
         UNCHANGED <<diagnosticCollection, decorations, lastPass>>
    ELSE finishPass(d, analysis(str, deprecatedHooks.value, validHooks.value),
                    deprecatedHooks.value, validHooks.value)

\* analyzeDocument(document), the text of the document being str
analyzeDocument(d, str) ==
    IF languageId(d) # "csharp"
    THEN UNCHANGED <<diagnosticCollection, decorations, lastPass>>
    ELSE analyzeLoaded(d, str, loadDeprecatedHooks(workspaceFolder, files),
                       loadValidHooks(workspaceFolder, files))

(***************************************************************************)
(* Inputs of the parser                                                    *)
(***************************************************************************)
MaxParams == 2

\* text between two commas of a parameter list
ParamPool ==
    { sInt \o sSP \o sx,
      sSP \o sBool \o sSP \o sb,
      sDictionary \o sLT \o sString \o sCOMMA \o sSP \o sInt \o sGT \o sSP \o sa,
      sList \o sLT \o sDictionary \o sLT \o sString \o sCOMMA \o sSP \o sList
           \o sLT \o sInt \o sGT \o sGT \o sGT \o sSP \o sm,
      <<>>,
      sSP,
      sa \o sGT \o sSP \o sList \o sLT \o sInt \o sCOMMA \o sInt \o sGT \o sSP \o sy }

ParamLists == UNION { [1..k -> ParamPool] : k \in 0..MaxParams }

RECURSIVE Concat(_)
Concat(parts) == IF parts = <<>> THEN <<>> ELSE Head(parts) \o Concat(Tail(parts))

Prefixes == { <<>>, sVoid \o sSP, sTAB \o sVoid \o sSP \o sSP }

DottedNames ==
    { sFoo, sF, sNS \o sDOT \o sSub \o sDOT \o sBaz, sFoo \o sDOT, sDOT \o sFoo }

Gaps == { <<>>, sSP }

Suffixes == { <<>>, sSP, sSP \o <<"{">> }

sNotASignature ==
    <<"n","o","t"," ","a"," ","s","i","g","n","a","t","u","r","e">>

ExtraSignatures ==
    { <<>>,
      sVoid,
      sVoid \o sSP,
      sNotASignature,
      sVoid \o sSP \o sLP \o sRP,
      sVoid \o sSP \o sVoid \o sSP \o sFoo \o sLP \o sRP,
      sVoid \o sSP \o sFoo \o sLP \o sInt \o sSP \o sx \o sCOMMA \o sNL \o sBool
           \o sSP \o sb \o sRP }

Signatures ==
    { pre \o nm \o gap \o sLP \o Join(ps, ",") \o sRP \o suf :
        pre \in Prefixes, nm \in DottedNames, gap \in Gaps,
        ps \in ParamLists, suf \in Suffixes }
    \cup ExtraSignatures

(***************************************************************************)
(* Inputs of the matcher: signatures and declarations written from their   *)
(* structure (a name and a list of typed parameters)                       *)
(***************************************************************************)
MaxTextParams == 2

sDictType == sDictionary \o sLT \o sString \o sCOMMA \o sSP \o sInt \o sGT

TypePool == { sInt, sString, sDictType }

\* the typed parameter lists of up to MaxTextParams parameters
TypeLists == UNION { [1..k -> TypePool] : k \in 0..MaxTextParams }

\* the identifier of the i-th parameter of a declaration in a text
TextId(i) == IF i = 1 THEN sa ELSE IF i = 2 THEN sb ELSE <<"c">>

\* the identifier of the i-th parameter of a catalog signature
SigId(i) == IF i = 1 THEN sx ELSE IF i = 2 THEN sy ELSE <<"z">>

\* "T1 id1, T2 id2" (loose = FALSE) or " T1  id1 ,T2  id2 " (loose = TRUE)
RECURSIVE RenderParams(_, _, _)
RenderParams(types, i, loose) ==
    IF i > Len(types) THEN (IF loose /\ Len(types) > 0 THEN sSP ELSE <<>>)
    ELSE (IF i = 1 THEN (IF loose THEN sSP ELSE <<>>)
          ELSE (IF loose THEN sSP \o sCOMMA ELSE sCOMMA \o sSP))
         \o types[i] \o sSP \o (IF loose THEN sSP ELSE <<>>)
         \o TextId(i)
         \o RenderParams(types, i + 1, loose)

\* a declaration in a document
RenderDecl(name, types, loose) ==
    sVoid \o sSP \o (IF loose THEN sNL ELSE <<>>) \o name
          \o (IF loose THEN sSP ELSE <<>>) \o sLP \o RenderParams(types, 1, loose) \o sRP

RECURSIVE RenderSigParams(_, _)
RenderSigParams(types, i) ==
    IF i > Len(types) THEN <<>>
    ELSE (IF i = 1 THEN <<>> ELSE sCOMMA \o sSP)
         \o types[i] \o sSP \o SigId(i) \o RenderSigParams(types, i + 1)

\* a catalog signature
RenderSig(name, types) ==
    sVoid \o sSP \o name \o sLP \o RenderSigParams(types, 1) \o sRP

sigFooInt == RenderSig(sFoo, <<sInt>>)

MatchHooks ==
    { RenderSig(sFoo, types) : types \in TypeLists }
    \cup { sFoo, sNS \o sDOT \o RenderSig(sFoo, <<sInt>>) }

sBody == sSP \o <<"{", " ", "}">>

\* texts that are not one closed declaration
SpecialTexts ==
    { <<>>,
      \* the parameter list is never closed
      sVoid \o sSP \o sFoo \o sLP \o sInt \o sSP \o sa,
      \* a second opening inside the parameter list of the first
      sVoid \o sSP \o sFoo \o sLP \o RenderDecl(sFoo, <<sInt>>, FALSE),
      \* two declarations, the second with a line break
      RenderDecl(sFoo, <<sInt>>, FALSE) \o sBody \o sNL
          \o RenderDecl(sFoo, <<sInt, sInt>>, TRUE) \o sBody,
      \* a closed declaration followed by an open one
      RenderDecl(sFoo, <<>>, FALSE) \o sSP \o sVoid \o sSP \o sFoo \o sLP,
      \* no whitespace after void; another name that ends in the hook's name
      sVoid \o sFoo \o sLP \o sRP \o sSP \o sVoid \o sSP \o sBar \o sFoo \o sLP \o sRP,
      \* the declaration inside a longer word
      sa \o RenderDecl(sFoo, <<sInt>>, FALSE) \o sBody,
      \* a comma with nothing after it
      sVoid \o sSP \o sFoo \o sLP \o sInt \o sSP \o sa \o sCOMMA \o sSP \o sRP \o sBody }

MatchTexts ==
    { RenderDecl(name, types, loose) \o sBody :
        name \in {sFoo, sBar}, types \in TypeLists, loose \in BOOLEAN }
    \cup SpecialTexts

(***************************************************************************)
(* SpecParse: parseHook applied to one signature                           *)
(***************************************************************************)
NormalizerIdle ==
    /\ param = <<>>
    /\ charIndex = 0
    /\ depth = 0
    /\ normalized = <<>>
    /\ normalizedType = Absent

ParserIdle ==
    /\ hookSignature = <<>>
    /\ parsed = Absent
    /\ NormalizerIdle

MatcherIdle ==
    /\ hook = <<>>
    /\ text = <<>>
    /\ checkMissingParams = FALSE
    /\ regex = Absent
    /\ scan = "idle"
    /\ found = <<>>

ExtensionIdle ==
    /\ docText = [d \in Docs |-> Absent]
    /\ workspaceFolder = FALSE
    /\ files = [wsDeprecated |-> MissingFile, wsHooks |-> MissingFile,
                extDeprecated |-> MissingFile, extHooks |-> MissingFile]
    /\ diagnosticCollection = [d \in Docs |-> Absent]
    /\ activeEditor = Absent
    /\ decorations = [d \in Docs |-> <<>>]
    /\ lastPass = [d \in Docs |-> Absent]

InitParse ==
    /\ hookSignature \in Signatures
    /\ parsed = Absent
    /\ NormalizerIdle
    /\ MatcherIdle
    /\ ExtensionIdle

CallParseHook ==
    /\ parsed = Absent
    /\ parsed' = Some(parseHook(hookSignature))
    /\ UNCHANGED <<hookSignature, normalizeVars, matchVars, extVars>>

NextParse == CallParseHook

SpecParse == InitParse /\ [][NextParse]_vars

(***************************************************************************)
(* SpecNormalize: normalizeGenericType applied to one parameter, one       *)
(* iteration of its loop at a time                                         *)
(***************************************************************************)
MaxNormalizeLen == 4

NormalizeChars == { "<", ">", ",", "a" }

\* the parameters normalizeGenericType is given: every text of up to
\* MaxNormalizeLen characters, and the pieces of the parameter lists above
NormalizeParams ==
    UNION { [1..k -> NormalizeChars] : k \in 0..MaxNormalizeLen }
    \cup { Trim(piece) : piece \in ParamPool }

InitNormalize ==
    /\ param \in NormalizeParams
    /\ charIndex = 0
    /\ depth = 0
    /\ normalized = <<>>
    /\ normalizedType = Absent
    /\ hookSignature = <<>>
    /\ parsed = Absent
    /\ MatcherIdle
    /\ ExtensionIdle

\* one iteration of the loop (lines 49-62), on the character param[i]
NormalizeLoopStep ==
    /\ normalizedType = Absent
    /\ charIndex < Len(param)
    /\ LET s == normalizeScan(<<param[charIndex + 1]>>, depth, normalized)
       IN /\ depth' = s.depth
          /\ normalized' = s.normalized
    /\ charIndex' = charIndex + 1
    /\ UNCHANGED <<param, normalizedType, hookSignature, parsed, matchVars, extVars>>

\* the loop has ended: return normalized.replace(/\|/g, ',') (line 64)
NormalizeReturn ==
    /\ normalizedType = Absent
    /\ charIndex = Len(param)
    /\ normalizedType' = Some(ReplaceBars(normalized))
    /\ UNCHANGED <<param, charIndex, depth, normalized, hookSignature, parsed,
                   matchVars, extVars>>

NextNormalize == NormalizeLoopStep \/ NormalizeReturn

SpecNormalize == InitNormalize /\ [][NextNormalize]_vars

(***************************************************************************)
(* SpecMatch: createRegexFromHook, then the loop over regex.exec           *)
(***************************************************************************)
InitMatch ==
    /\ hook \in MatchHooks
    /\ text \in MatchTexts
    /\ checkMissingParams \in BOOLEAN
    /\ regex = Absent
    /\ scan = "idle"
    /\ found = <<>>
    /\ ParserIdle
    /\ ExtensionIdle

CallCreateRegexFromHook ==
    /\ scan = "idle"
    /\ regex' = Some(createRegexFromHook(hook, checkMissingParams))
    /\ scan' = "loop"
    /\ UNCHANGED <<hook, text, checkMissingParams, found, parseVars, extVars>>

\* one evaluation of the loop condition (match = regex.exec(text)) !== null
CallRegexExec ==
    /\ scan = "loop"
    /\ LET r == RegExpExec(regex[1], text)
       IN /\ regex' = Some([regex[1] EXCEPT !.lastIndex = r.lastIndex])
          /\ found' = IF r.match = Absent THEN found ELSE Append(found, r.match[1])
          /\ scan' = IF r.match = Absent THEN "done" ELSE "loop"
    /\ UNCHANGED <<hook, text, checkMissingParams, parseVars, extVars>>

NextMatch == CallCreateRegexFromHook \/ CallRegexExec

SpecMatch == InitMatch /\ [][NextMatch]_vars

(***************************************************************************)
(* extension.ts: the event handlers registered by activate                 *)
(***************************************************************************)
\* onDidOpenTextDocument (lines 196-199): the document opens with text str
OnDidOpenTextDocument(d, str) ==
    /\ docText[d] = Absent
    /\ docText' = [docText EXCEPT ![d] = Some(str)]
    /\ analyzeDocument(d, str)
    /\ UNCHANGED <<workspaceFolder, files, activeEditor, parseVars, matchVars>>

\* onDidChangeTextDocument (lines 200-203): the text of the document is now str
OnDidChangeTextDocument(d, str) ==
    /\ docText[d] # Absent
    /\ docText' = [docText EXCEPT ![d] = Some(str)]
    /\ analyzeDocument(d, str)
    /\ UNCHANGED <<workspaceFolder, files, activeEditor, parseVars, matchVars>>

\* onDidSaveTextDocument (lines 204-207)
OnDidSaveTextDocument(d) ==
    /\ docText[d] # Absent
    /\ analyzeDocument(d, docText[d][1])
    /\ UNCHANGED <<docText, workspaceFolder, files, activeEditor, parseVars, matchVars>>

\* the command extension.analyzeDeprecatedHooks (lines 184-190)
AnalyzeDeprecatedHooksCommand ==
    /\ IF activeEditor # Absent
       THEN analyzeDocument(activeEditor[1], docText[activeEditor[1]][1])
       ELSE UNCHANGED <<diagnosticCollection, decorations, lastPass>>
    /\ UNCHANGED <<docText, workspaceFolder, files, activeEditor, parseVars, matchVars>>

\* the user moves to the editor of another open document, or to none
ChangeActiveEditor(e) ==
    /\ e # activeEditor
    /\ e # Absent => docText[e[1]] # Absent
    /\ activeEditor' = e
    /\ UNCHANGED <<docText, workspaceFolder, files, diagnosticCollection,
                   decorations, lastPass, parseVars, matchVars>>

\* a catalog file is written, replaced or deleted on disk
WriteFile(f, v) ==
    /\ f \in {"wsDeprecated", "wsHooks"} => workspaceFolder
    /\ files[f] # v
    /\ files' = [files EXCEPT ![f] = v]
    /\ UNCHANGED <<docText, workspaceFolder, diagnosticCollection, activeEditor,
                   decorations, lastPass, parseVars, matchVars>>

(***************************************************************************)
(* Inputs of the extension                                                 *)
(***************************************************************************)
Entry(old, new) == [old |-> old, new |-> new]

sigBarInt == RenderSig(sBar, <<sInt>>)
sigBarIntInt == RenderSig(sBar, <<sInt, sInt>>)
sigBaz == RenderSig(sBaz, <<>>)

\* the catalogs the four files hold when they hold well-formed JSON
WsDeprecatedCatalog == <<Entry(sigFooInt, sigBarInt)>>
ExtDeprecatedCatalog == <<Entry(sigBaz, <<>>)>>
WsHooksCatalog == <<sigBarIntInt>>
ExtHooksCatalog == <<sigBarInt, RenderSig(sFoo, <<sInt, sInt>>)>>

FileNames == {"wsDeprecated", "wsHooks", "extDeprecated", "extHooks"}

DefaultCatalog(f) ==
    IF f = "wsDeprecated" THEN WsDeprecatedCatalog
    ELSE IF f = "wsHooks" THEN WsHooksCatalog
    ELSE IF f = "extDeprecated" THEN ExtDeprecatedCatalog
    ELSE ExtHooksCatalog

FileValues(f) ==
    { MissingFile, InvalidFile, File(TRUE, TRUE, TRUE, DefaultCatalog(f)) }
    \cup (IF f \in {"wsDeprecated", "wsHooks"}
          THEN { File(TRUE, TRUE, FALSE, <<>>) } ELSE {})

sDeclFoo1 == RenderDecl(sFoo, <<sInt>>, FALSE) \o sBody
sDeclBar1 == RenderDecl(sBar, <<sInt>>, FALSE) \o sBody
sDeclBaz0 == RenderDecl(sBaz, <<>>, FALSE) \o sBody

DocTexts(d) ==
    IF d = "a.cs" THEN { sDeclFoo1 \o sNL \o sDeclBar1, sDeclBaz0 \o sNL \o sDeclBar1 }
    ELSE { sDeclFoo1 }

\* the files under .vscode are the ones the user edits; the default files are
\* part of the installed extension
UserFiles == {"wsDeprecated", "wsHooks"}

(***************************************************************************)
(* Spec: the extension after activation with no document open              *)
(***************************************************************************)
Init ==
    /\ docText = [d \in Docs |-> Absent]
    /\ workspaceFolder \in BOOLEAN
    /\ files = [f \in FileNames |->
                  IF f \in {"wsDeprecated", "wsHooks"} /\ ~workspaceFolder
                  THEN MissingFile
                  ELSE File(TRUE, TRUE, TRUE, DefaultCatalog(f))]
    /\ diagnosticCollection = [d \in Docs |-> Absent]
    /\ activeEditor = Absent
    /\ decorations = [d \in Docs |-> <<>>]
    /\ lastPass = [d \in Docs |-> Absent]
    /\ ParserIdle
    /\ MatcherIdle

Next ==
    \/ \E d \in Docs : \E str \in DocTexts(d) : OnDidOpenTextDocument(d, str)
    \/ \E d \in Docs : \E str \in DocTexts(d) : OnDidChangeTextDocument(d, str)
    \/ \E d \in Docs : OnDidSaveTextDocument(d)
    \/ AnalyzeDeprecatedHooksCommand
    \/ \E e \in {Absent} \cup {Some(d) : d \in Docs} : ChangeActiveEditor(e)
    \/ \E f \in UserFiles : \E v \in FileValues(f) : WriteFile(f, v)

Spec == Init /\ [][Next]_vars

(***************************************************************************)
(* SpecAnalyze: one pass of analyzeDocument over a document that opens,    *)
(* for every state of the catalog files                                    *)
(***************************************************************************)
sigFooIntY == sVoid \o sSP \o sFoo \o sLP \o sInt \o sSP \o sy \o sRP

DeprecatedCatalogs ==
    { <<>>,
      <<Entry(sigFooInt, sigBarInt)>>,
      \* two signatures with the same name and parameter types
      <<Entry(sigFooInt, <<>>), Entry(sigFooIntY, sigBarInt)>>,
      <<Entry(RenderSig(sFoo, <<>>), <<>>),
        Entry(RenderSig(sFoo, <<sDictType>>), sigFooInt)>> }

ValidCatalogs ==
    { <<>>,
      <<RenderSig(sFoo, <<sInt, sInt>>)>>,
      <<sigFooInt, RenderSig(sBar, <<sDictType, sInt>>)>>,
      <<RenderSig(sFoo, <<>>)>> }

\* the texts a document may open with
AnalyzeTexts(d) == IF d = "a.cs" THEN MatchTexts \cup DocTexts(d) ELSE DocTexts(d)

\* no workspace folder, the default files holding any of the catalogs above
InitCatalogs ==
    /\ workspaceFolder = FALSE
    /\ \E dc \in DeprecatedCatalogs, vc \in ValidCatalogs :
         files = [f \in FileNames |->
                    IF f = "extDeprecated" THEN File(TRUE, TRUE, TRUE, dc)
                    ELSE IF f = "extHooks" THEN File(TRUE, TRUE, TRUE, vc)
                    ELSE MissingFile]

\* every combination of missing, invalid and well-formed files
InitFiles ==
    /\ workspaceFolder \in BOOLEAN
    /\ \E wd \in IF workspaceFolder THEN FileValues("wsDeprecated") ELSE {MissingFile},
          wh \in IF workspaceFolder THEN FileValues("wsHooks") ELSE {MissingFile},
          ed \in FileValues("extDeprecated"),
          eh \in FileValues("extHooks") :
         files = [wsDeprecated |-> wd, wsHooks |-> wh,
                  extDeprecated |-> ed, extHooks |-> eh]

InitAnalyze ==
    /\ docText = [d \in Docs |-> Absent]
    /\ InitCatalogs \/ InitFiles
    /\ diagnosticCollection = [d \in Docs |-> Absent]
    /\ activeEditor = Absent
    /\ decorations = [d \in Docs |-> <<>>]
    /\ lastPass = [d \in Docs |-> Absent]
    /\ ParserIdle
    /\ MatcherIdle

NextAnalyze ==
    \E d \in Docs : \E str \in AnalyzeTexts(d) : OnDidOpenTextDocument(d, str)

SpecAnalyze == InitAnalyze /\ [][NextAnalyze]_vars

(***************************************************************************)
(* Claims about the parser, checked under SpecParse                        *)
(***************************************************************************)
\* the match of the call shape on the input of the current state
ShapeOf(sig) == methodMatch(cleanSignature(sig))

\* reference: the angle brackets of s are balanced
RECURSIVE BalancedFrom(_, _)
BalancedFrom(s, d) ==
    IF s = <<>> THEN d = 0
    ELSE IF Head(s) = "<" THEN BalancedFrom(Tail(s), d + 1)
    ELSE IF Head(s) = ">" THEN d > 0 /\ BalancedFrom(Tail(s), d - 1)
    ELSE BalancedFrom(Tail(s), d)

Balanced(s) == BalancedFrom(s, 0)

\* reference: s cut at the commas that lie outside every <...>
RECURSIVE TopLevelSplit(_, _, _)
TopLevelSplit(s, d, cur) ==
    IF s = <<>> THEN <<cur>>
    ELSE IF Head(s) = "," /\ d = 0 THEN <<cur>> \o TopLevelSplit(Tail(s), d, <<>>)
    ELSE TopLevelSplit(Tail(s),
                       IF Head(s) = "<" THEN d + 1
                       ELSE IF Head(s) = ">" /\ d > 0 THEN d - 1 ELSE d,
                       Append(cur, Head(s)))

\* reference: the non-empty trimmed top-level segments of a parameter list
TopLevelPieces(s) == FilterNonEmpty(MapTrim(TopLevelSplit(s, 0, <<>>)))

\* C1: for a signature of the call shape with balanced angle brackets,
\* parseHook's parameters are the non-empty top-level comma-separated segments
\* of the parameter list, as many and in the same order (a comma inside <...>
\* separates nothing).
C1_ParametersAreTopLevelSegments ==
    (parsed # Absent /\ ShapeOf(hookSignature) # Absent
        /\ Balanced(ShapeOf(hookSignature)[1].paramString))
    => /\ Len(parsed[1].parameters)
            = Len(TopLevelPieces(ShapeOf(hookSignature)[1].paramString))
       /\ parsed[1].parameters = TopLevelPieces(ShapeOf(hookSignature)[1].paramString)

\* C6: parseHook returns a record for every input; when the call shape does
\* not match, the record is the cleaned input as name, no parameters and no
\* namespace.
C6_DegradesToNameOnly ==
    parsed # Absent
    => /\ DOMAIN parsed[1] = {"name", "parameters", "namespace"}
       /\ ShapeOf(hookSignature) = Absent
            => parsed[1] = [name |-> StripVoid(Trim(hookSignature)),
                            parameters |-> <<>>,
                            namespace |-> Absent]

C6_Witness ==
    /\ parsed # Absent
    /\ hookSignature = sNotASignature
    /\ parsed[1] = [name |-> sNotASignature, parameters |-> <<>>, namespace |-> Absent]

\* C7: on a shape match the name is the last dot-separated segment of the
\* dotted identifier (so it holds no dot), the namespace is what precedes the
\* last dot, and the namespace is absent exactly when the identifier has no dot;
\* `void NS.Sub.Baz(int x)` gives Baz, NS.Sub and ["int x"].
C7_NameAndNamespace ==
    (parsed # Absent /\ ShapeOf(hookSignature) # Absent)
    => LET fullName == ShapeOf(hookSignature)[1].fullName
           r == parsed[1]
       IN /\ ~Includes(r.name, ".")
          /\ (r.namespace = Absent) <=> ~Includes(fullName, ".")
          /\ r.namespace = Absent => fullName = r.name
          /\ r.namespace # Absent => fullName = r.namespace[1] \o sDOT \o r.name
          /\ hookSignature = sVoid \o sSP \o sNS \o sDOT \o sSub \o sDOT \o sBaz
                                \o sLP \o sInt \o sSP \o sx \o sRP
                => r = [name |-> sBaz,
                        namespace |-> Some(sNS \o sDOT \o sSub),
                        parameters |-> <<sInt \o sSP \o sx>>]

C7_Witness ==
    /\ parsed # Absent
    /\ hookSignature = sVoid \o sSP \o sNS \o sDOT \o sSub \o sDOT \o sBaz
                          \o sLP \o sInt \o sSP \o sx \o sRP
    /\ parsed[1].namespace = Some(sNS \o sDOT \o sSub)

\* C8 as stated: every record parseHook returns has a non-empty name.
C8_NameNonEmpty ==
    parsed # Absent => Len(parsed[1].name) > 0

\* C8 amended: the name is empty exactly when the cleaned signature is empty,
\* or it has the call shape and its dotted identifier ends in a dot.
C8_NameEmptyExactlyWhen ==
    parsed # Absent
    => LET clean == cleanSignature(hookSignature)
           m == ShapeOf(hookSignature)
       IN (Len(parsed[1].name) = 0)
          <=> \/ clean = <<>>
              \/ m # Absent /\ m[1].fullName[Len(m[1].fullName)] = "."

C8_Witness ==
    /\ parsed # Absent
    /\ hookSignature = sVoid \o sSP \o sFoo \o sDOT \o sLP \o sRP
    /\ parsed[1].name = <<>>

(***************************************************************************)
(* Claims about normalizeGenericType, checked under SpecNormalize          *)
(***************************************************************************)
\* reference: the nesting depth after the characters of s, an unmatched ">"
\* leaving it at 0
RECURSIVE FlooredDepth(_, _)
FlooredDepth(s, d) ==
    IF s = <<>> THEN d
    ELSE IF Head(s) = "<" THEN FlooredDepth(Tail(s), d + 1)
    ELSE IF Head(s) = ">" THEN FlooredDepth(Tail(s), IF d > 0 THEN d - 1 ELSE 0)
    ELSE FlooredDepth(Tail(s), d)

\* the characters of the parameter the loop has read
ReadSoFar == SubSeq(param, 1, charIndex)

\* C11: while a parameter that contains "<" is normalized, the depth the scan
\* tracks is never negative: it is the nesting depth with an unmatched ">"
\* leaving it at 0, so a comma inside a later balanced <...> group is read at
\* a depth above 0 and written as nested.
C11_DepthNeverNegative ==
    Includes(param, "<")
    => /\ depth >= 0
       /\ depth = FlooredDepth(ReadSoFar, 0)
       /\ \A k \in 1..charIndex :
            (param[k] = "," /\ FlooredDepth(SubSeq(param, 1, k - 1), 0) > 0)
            => normalized[k] = "|"

(***************************************************************************)
(* Claims about the matcher, checked under SpecMatch                       *)
(***************************************************************************)
\* C4: the strict matcher of a signature with parameter types T1..Tn matches a
\* declaration `void Name(U1 id1, ..., Um idm)` only when the name is the
\* signature's, m = n and Ui = Ti for every i; for `void Foo(int x)` it matches
\* `void Foo(int a)` and not `void Foo(string a)`; the matcher of a signature
\* without parameters matches an empty parameter list.
C4_StrictMatchesOnlySameTypes ==
    (~checkMissingParams /\ scan = "done")
    => /\ found # <<>>
            => \A sigTypes \in TypeLists :
                 hook = RenderSig(sFoo, sigTypes)
                 => \A name \in {sFoo, sBar}, declTypes \in TypeLists, loose \in BOOLEAN :
                      text = RenderDecl(name, declTypes, loose) \o sBody
                      => name = sFoo /\ declTypes = sigTypes
       /\ (hook = sigFooInt /\ text = RenderDecl(sFoo, <<sInt>>, FALSE) \o sBody)
             => /\ Len(found) = 1
                /\ found[1].all = RenderDecl(sFoo, <<sInt>>, FALSE)
       /\ (hook = sigFooInt /\ text = RenderDecl(sFoo, <<sString>>, FALSE) \o sBody)
             => found = <<>>
       /\ (hook = RenderSig(sFoo, <<>>) /\ text = RenderDecl(sFoo, <<>>, FALSE) \o sBody)
             => Len(found) = 1

C4_Witness ==
    /\ ~checkMissingParams /\ scan = "done"
    /\ hook = RenderSig(sFoo, <<sInt, sString>>)
    /\ text = RenderDecl(sFoo, <<sInt, sString>>, TRUE) \o sBody
    /\ Len(found) = 1

\* reference: the position of the "(" of an opening `void <name>(` that
\* starts at position i of s, 0 when none starts there
OpeningAt(s, i, name) ==
    LET afterVoid == DropFirst(s, i + 3)
        w == SpanLen(afterVoid, SpaceChars)
        afterName == DropFirst(afterVoid, w + Len(name))
        v == SpanLen(afterName, SpaceChars)
        paren == i + 3 + w + Len(name) + v + 1
    IN IF /\ i + 3 <= Len(s)
          /\ SubSeq(s, i, i + 3) = sVoid
          /\ w >= 1
          /\ StartsWith(DropFirst(afterVoid, w), name)
          /\ paren <= Len(s)
          /\ s[paren] = "("
       THEN paren ELSE 0

\* reference: the position of the first ")" of s at or after position j, 0
\* when there is none
RECURSIVE NextClose(_, _)
NextClose(s, j) ==
    IF j > Len(s) THEN 0 ELSE IF s[j] = ")" THEN j ELSE NextClose(s, j + 1)

\* the hook name of the current state
HookName == parseHook(hook).name

\* C5 as stated: the permissive matcher finds every opening `void <name>(` of
\* the text and captures the text between its "(" and the next ")".
C5_FindsEveryOpening ==
    (checkMissingParams /\ scan = "done")
    => /\ { m.index + 1 : m \in { found[k] : k \in 1..Len(found) } }
            = { i \in 1..Len(text) : OpeningAt(text, i, HookName) > 0 }
       /\ \A k \in 1..Len(found) :
            LET paren == OpeningAt(text, found[k].index + 1, HookName)
            IN found[k].group1
                 = Some(SubSeq(text, paren + 1, NextClose(text, paren + 1) - 1))

\* reference: the closed openings from position p on, left to right, each
\* starting after the end of the one before
RECURSIVE ClosedOpenings(_, _, _)
ClosedOpenings(s, p, name) ==
    IF p > Len(s) THEN <<>>
    ELSE LET paren == OpeningAt(s, p, name)
             close == IF paren > 0 THEN NextClose(s, paren + 1) ELSE 0
         IN IF close > 0
            THEN <<[index |-> p - 1,
                    all |-> SubSeq(s, p, close),
                    group1 |-> Some(SubSeq(s, paren + 1, close - 1))]>>
                 \o ClosedOpenings(s, close + 1, name)
            ELSE ClosedOpenings(s, p + 1, name)

\* C5 amended: scanning left to right, the permissive matcher finds every
\* opening `void <name>(` that has a ")" after its "(" and starts at or after
\* the end of the occurrence found before it, whatever the signature's own
\* parameters; for each it captures the text between its "(" and the next ")".
\* For `void Foo(int x)` and `void Foo(int a, int b) { }` that is one occurrence
\* capturing `int a, int b`.
C5_FindsClosedOpenings ==
    (checkMissingParams /\ scan = "done")
    => /\ found = ClosedOpenings(text, 1, HookName)
       /\ (hook = sigFooInt /\ text = RenderDecl(sFoo, <<sInt, sInt>>, FALSE) \o sBody)
            => /\ Len(found) = 1
               /\ found[1].group1
                    = Some(sInt \o sSP \o sa \o sCOMMA \o sSP \o sInt \o sSP \o sb)

C5_Witness ==
    /\ checkMissingParams /\ scan = "done"
    /\ hook = sigFooInt
    /\ text = RenderDecl(sFoo, <<sInt, sInt>>, FALSE) \o sBody
    /\ Len(found) = 1
    /\ found[1].group1 = Some(sInt \o sSP \o sa \o sCOMMA \o sSP \o sInt \o sSP \o sb)

(***************************************************************************)
(* Claims about the analysis pass, checked under SpecAnalyze               *)
(***************************************************************************)
\* the documents a pass has published diagnostics for
Analyzed == { d \in Docs : lastPass[d] # Absent }

Published(d) == diagnosticCollection[d][1]

\* the positions of the published diagnostics of d with this severity and range
DiagnosticsAt(d, severity, range) ==
    { i \in 1..Len(Published(d)) :
        Published(d)[i].severity = severity /\ Published(d)[i].range = range }

\* the elements of a sequence
Elems(seq) == { seq[i] : i \in 1..Len(seq) }

\* the occurrences the permissive and the strict pattern of a signature find
PermissiveMatches(h, str) == Elems(execAll(createRegexFromHook(h, TRUE), str))
StrictMatches(h, str) == Elems(execAll(createRegexFromHook(h, FALSE), str))

\* reference: msg names the deprecated signature, tells to use the
\* replacement when there is one and that there is none otherwise
IsDeprecationOf(msg, e) ==
    /\ msg.args[1] = e.old
    /\ IF e.new # <<>>
       THEN /\ msg.template = "Hook \"$1\" is deprecated.\nUse \"$2\" instead."
            /\ msg.args = <<e.old, e.new>>
       ELSE /\ msg.template = "Hook \"$1\" is deprecated.\nNo direct replacement available."
            /\ msg.args = <<e.old>>

C3_WarningIffFewerTopLevelParams ==
    \A d \in Analyzed :
      \A h \in Elems(lastPass[d][1].validHooks) :
        \A m \in PermissiveMatches(h, docText[d][1]) :
          (\E i \in DiagnosticsAt(d, "Warning", matchRange(m)) :
             Published(d)[i].message.args = <<parseHook(h).name, h>>)
          <=> Len(TopLevelPieces(m.group1[1])) < Len(parseHook(h).parameters)

\* the file a loader reads: the one under .vscode when there is a workspace
\* folder and the file exists, the default file of the extension otherwise
FileRead(wsFile, defaultFile) ==
    IF workspaceFolder /\ wsFile.exists THEN wsFile ELSE defaultFile

Unreadable(f) == ~f.exists \/ ~f.isJson

\* C9 as stated: when a catalog file is missing or holds invalid JSON, the
\* loader of that catalog returns the empty catalog and the pass publishes.
C9_EmptyWhenAFileIsMissing ==
    \A d \in Analyzed :
      /\ diagnosticCollection[d] # Absent
      /\ (workspaceFolder /\ Unreadable(files.wsDeprecated))
           => lastPass[d][1].deprecatedHooks = <<>>
      /\ (workspaceFolder /\ Unreadable(files.wsHooks))
           => lastPass[d][1].validHooks = <<>>

\* C9 amended: when the file a loader reads (the workspace file if a workspace
\* folder and that file exist, otherwise the extension's default file) is
\* missing or holds invalid JSON, the loader returns the empty catalog instead
\* of propagating the error, and the pass over an opened C# document still
\* completes and publishes, with no diagnostic of the failed catalog; a missing
\* workspace file is no failure, the loader then reads the default file.
C9_EmptyWhenTheFileReadFails ==
    \A d \in Docs :
      (docText[d] # Absent /\ languageId(d) = "csharp")
      => /\ lastPass[d] # Absent
         /\ diagnosticCollection[d] # Absent
         /\ Unreadable(FileRead(files.wsDeprecated, files.extDeprecated))
              => /\ lastPass[d][1].deprecatedHooks = <<>>
                 /\ \A i \in 1..Len(Published(d)) : Published(d)[i].severity # "Error"
         /\ Unreadable(FileRead(files.wsHooks, files.extHooks))
              => /\ lastPass[d][1].validHooks = <<>>
                 /\ \A i \in 1..Len(Published(d)) : Published(d)[i].severity # "Warning"
         /\ ~Unreadable(FileRead(files.wsDeprecated, files.extDeprecated))
              => lastPass[d][1].deprecatedHooks
                   = IF FileRead(files.wsDeprecated, files.extDeprecated).hasKey
                     THEN FileRead(files.wsDeprecated, files.extDeprecated).catalog
                     ELSE <<>>

C9_Witness ==
    /\ workspaceFolder
    /\ files.wsHooks = InvalidFile
    /\ files.wsDeprecated = MissingFile
    /\ files.extDeprecated = File(TRUE, TRUE, TRUE, ExtDeprecatedCatalog)
    /\ files.extHooks = File(TRUE, TRUE, TRUE, ExtHooksCatalog)
    /\ lastPass["a.cs"] # Absent
    /\ docText["a.cs"] = Some(sDeclBaz0 \o sNL \o sDeclBar1)
    /\ lastPass["a.cs"][1].validHooks = <<>>
    /\ Len(Published("a.cs")) = 1
    /\ Published("a.cs")[1].severity = "Error"

(***************************************************************************)
(* Claims about the event handlers, checked under Spec                     *)
(***************************************************************************)
\* a step in which a handler runs a pass on document d
PassOn(d) ==
    \/ \E str \in DocTexts(d) : OnDidOpenTextDocument(d, str)
    \/ \E str \in DocTexts(d) : OnDidChangeTextDocument(d, str)
    \/ OnDidSaveTextDocument(d)
    \/ activeEditor = Some(d) /\ AnalyzeDeprecatedHooksCommand

\* the published diagnostics of d are those of one pass over its text and the
\* catalogs its latest pass loaded; none are published before the first pass
ExactlyLatestPass(d) ==
    IF lastPass[d] = Absent THEN diagnosticCollection[d] = Absent
    ELSE diagnosticCollection[d]
           = Some(analysis(docText[d][1], lastPass[d][1].deprecatedHooks,
                           lastPass[d][1].validHooks).diagnostics)

\* C10: after any sequence of open, change, save and command events, the
\* diagnostics published for a C# document are exactly those of a single pass
\* over its text and the catalogs of its most recent pass (a pass replaces the
\* earlier diagnostics), and a pass that finds the text and the catalogs of the
\* pass before it leaves the published diagnostics as they are.
C10_PublishedIsLatestPass ==
    /\ [](\A d \in Docs : ExactlyLatestPass(d))
    /\ [][\A d \in Docs :
            (PassOn(d) /\ lastPass[d] # Absent /\ docText'[d] = docText[d]
                /\ lastPass'[d] = lastPass[d])
            => diagnosticCollection'[d] = diagnosticCollection[d]]_vars

C10_Witness ==
    /\ lastPass["a.cs"] # Absent
    /\ lastPass["a.cs"][1].deprecatedHooks = ExtDeprecatedCatalog
    /\ lastPass["a.cs"][1].validHooks = WsHooksCatalog
    /\ files.wsDeprecated = File(TRUE, TRUE, TRUE, WsDeprecatedCatalog)
    /\ docText["a.cs"] = Some(sDeclBaz0 \o sNL \o sDeclBar1)
    /\ Len(Published("a.cs")) = 2

====
